---- MODULE Spec2Model ----
(***************************************************************************)
(* Mitabo (src/home.py, src/models.py): the upload request handler         *)
(* upload_post, the HLS packaging function transcode_to_hls with its       *)
(* manifest-repair step, Video.source_url, and the handlers that read or   *)
(* write the tables: watch, api_videos, comment_post, register,            *)
(* parametres, like_video, dislike_video, give_xp, follow_user, ban_user   *)
(* and promote_user.                                                       *)
(*                                                                         *)
(* Paths are sequences of path components.  An absent value (Python None   *)
(* or "") of a path- or url-typed field is the empty sequence.             *)
(***************************************************************************)
EXTENDS Integers, Sequences, FiniteSets, TLC

\* ------------------------------------------------------------------ bounds
\* Upload requests that may be in flight together.
MaxReq == 2
\* Callers of transcode_to_hls that may run together.
MaxCallers == 2
\* Rows of table users.
MaxUsers == 2
\* like_video / dislike_video requests made.
MaxSess == 3
\* Primary keys table likes may hand out.
MaxLikeId == 2
\* Times one video is watched.
MaxViews == 1
\* Rows of table comments.
MaxComments == 1
\* follow_user, give_xp, register and parametres requests made.
MaxWeb == 3
\* Primary keys tables follows and xp may hand out.
MaxRowId == 3

\* home.py:219: the characters of stderr the log line takes.
LogLimit == 2000

Req == 1..MaxReq
Caller == 1..MaxCallers

\* --------------------------------------------------------------- constants
None == <<>>

\* home.py:28-30
BASE_DIR == <<"app">>
UPLOAD_DIR == BASE_DIR \o <<"uploads">>
HLS_DIR == BASE_DIR \o <<"hls">>

\* home.py:185
ALLOWED_EXTENSIONS == {"mp4", "webm", "ogg", "mov", "m4v"}

\* The file part of an upload form: absent, or a name split at its last dot
\* (secure_filename leaves these names as they are).
NoFile == [base |-> "", ext |-> ""]
FileNames == {[base |-> "clip", ext |-> "mp4"],
              [base |-> "intro", ext |-> "webm"],
              [base |-> "notes", ext |-> "txt"]}
FormFiles == {NoFile} \cup FileNames

\* home.py:190-191
allowed_file(f) == f.ext # "" /\ f.ext \in ALLOWED_EXTENSIONS

\* A stored name: f"{base}-{counter}{ext}", counter 0 standing for the bare
\* filename (home.py:1354, 1356).
StoredName(f, counter) == [base |-> f.base, counter |-> counter, ext |-> f.ext]
NoName == [base |-> "", counter |-> 0, ext |-> ""]

\* The flashed messages of upload_post.
FlashNoFile == "Aucun fichier recu"
FlashBadExt == "Extension non supportee"
FlashStoreError == "Erreur lors de l'upload Supabase"
FlashNoSupabase == "Supabase non configure - impossible d'uploader"
FlashSuccess == "Video uploadee avec succes sur Supabase !"
FlashError == "Erreur lors de l'upload"
\* The advisory notice of a failed packaging; upload_post has no such flash.
FlashPackagingFailed == "adaptive packaging failed, direct playback will be used"

VARIABLES
    ffmpeg_on_path,  \* shutil.which("ffmpeg") is not None on this host
    engine_status,   \* the exit status the host's engine gives a readable input
    supabase,        \* the module-level object-store client is truthy
    upload_dir,      \* the names of the files in UPLOAD_DIR
    bucket,          \* the keys of the objects in the object store
    videos,          \* the rows of table videos, in id order
    hls_dirs,        \* the directories made by transcode_to_hls
    hls_files,       \* path -> content of the files written below them
    jobs,            \* the engine runs (subprocess.run of ffmpeg), in order
    req,             \* the upload requests
    call,            \* the calls of transcode_to_hls
    users,           \* the rows of table users: id -> columns
    likes,           \* the rows of table likes
    comments,        \* the rows of table comments, in id order
    sess,            \* the like_video / dislike_video requests
    page,            \* the items of the last page or JSON list rendered
    follows,         \* the rows of table follows
    xps,             \* the rows of table xp
    web              \* the follow, xp, register and settings requests

vars == <<ffmpeg_on_path, engine_status, supabase, upload_dir, bucket, videos,
          hls_dirs, hls_files, jobs, req, call, users, likes, comments, sess,
          page, follows, xps, web>>

social == <<follows, xps, web>>
site == <<users, likes, comments, sess, page, social>>

host == <<ffmpeg_on_path, engine_status, supabase>>
hls == <<hls_dirs, hls_files, jobs, call>>

\* ------------------------------------------------------------------ models.py
\* Video(...) as upload_post builds it (home.py:1392-1402): hls_manifest is not
\* among the arguments, so the column keeps its default, NULL; views starts
\* at its default, 0 (models.py:74).  Of a row's columns the model keeps id,
\* filename, external_url, hls_manifest and views.
NewVideoSetsManifest(id, final, public_url) ==
    [id |-> id, filename |-> final, external_url |-> public_url,
     hls_manifest |-> <<final.base, "master.m3u8">>, views |-> 0]

NewVideoNoUrl(id, final, public_url) ==
    [id |-> id, filename |-> final, external_url |-> None,
     hls_manifest |-> None, views |-> 0]

NewVideo(id, final, public_url) ==
    [id |-> id, filename |-> final, external_url |-> public_url,
     hls_manifest |-> None, views |-> 0]

\* Video.source_url with the local file tried before the manifest.
SourceUrlFileFirst(v) ==
    IF v.external_url # None THEN [kind |-> "external", path |-> v.external_url]
    ELSE IF v.filename # NoName
         THEN [kind |-> "media",
               path |-> <<v.filename.base, v.filename.ext>>]
    ELSE IF v.hls_manifest # None THEN [kind |-> "hls", path |-> v.hls_manifest]
    ELSE [kind |-> "", path |-> None]

\* Video.source_url with the manifest tried before the external URL.
SourceUrlHlsFirst(v) ==
    IF v.hls_manifest # None THEN [kind |-> "hls", path |-> v.hls_manifest]
    ELSE IF v.external_url # None
         THEN [kind |-> "external", path |-> v.external_url]
    ELSE IF v.filename # NoName
         THEN [kind |-> "media",
               path |-> <<v.filename.base, v.filename.ext>>]
    ELSE [kind |-> "", path |-> None]

\* Video.source_url (models.py:84-96).
source_url(v) ==
    IF v.external_url # None THEN [kind |-> "external", path |-> v.external_url]
    ELSE IF v.hls_manifest # None THEN [kind |-> "hls", path |-> v.hls_manifest]
    ELSE IF v.filename # NoName
         THEN [kind |-> "media",
               path |-> <<v.filename.base, v.filename.ext>>]
    ELSE [kind |-> "", path |-> None]

\* ------------------------------------------------------------ ffmpeg_exists
\* home.py:193-194
ffmpeg_exists == ffmpeg_on_path

\* ------------------------------------------------------------- upload_post
IdleReq ==
    [pc |-> "idle", file |-> NoFile, to_hls |-> FALSE, final |-> NoName,
     public_url |-> None, raised |-> "", flashes |-> <<>>, redirect |-> "",
     video_id |-> 0]

\* The collision-avoidance loop (home.py:1353-1357): the first of filename,
\* base-1.ext, base-2.ext, ... that is not in UPLOAD_DIR.
RECURSIVE FirstFree(_, _, _)
FirstFree(f, counter, dir) ==
    IF StoredName(f, counter) \in dir
    THEN FirstFree(f, counter + 1, dir)
    ELSE StoredName(f, counter)

\* get_public_url(f"videos/{final}") (home.py:1375).
PublicUrl(final) == <<"public", "videos", final>>

\* The request ends: the flashes made, and the redirect returned.
Finish(r, msgs, target) ==
    [req[r] EXCEPT !.pc = "done",
                   !.flashes = @ \o msgs,
                   !.redirect = target]

\* The handler's outer except (home.py:1410-1415), entered from the step
\* that raised: the error is flashed and the upload form is returned.
OuterExceptReportsSuccess(r, step) ==
    [Finish(r, <<FlashSuccess>>, "watch") EXCEPT !.raised = step]

OuterExcept(r, step) ==
    [Finish(r, <<FlashError>>, "upload_form") EXCEPT !.raised = step]

\* home.py:1335-1357: the form is read, the file is validated and named.
UploadReceive(r) ==
    /\ req[r].pc = "idle"
    /\ \E f \in FormFiles, h \in BOOLEAN :
         LET q == [req[r] EXCEPT !.file = f, !.to_hls = h] IN
         IF f = NoFile
         THEN req' = [req EXCEPT ![r] =
                        [q EXCEPT !.pc = "done", !.flashes = <<FlashNoFile>>,
                                  !.redirect = "upload_form"]]
         ELSE IF ~allowed_file(f)
         THEN req' = [req EXCEPT ![r] =
                        [q EXCEPT !.pc = "done", !.flashes = <<FlashBadExt>>,
                                  !.redirect = "upload_form"]]
         ELSE req' = [req EXCEPT ![r] =
                        [q EXCEPT !.pc = "named",
                                  !.final = FirstFree(f, 0, upload_dir)]]
    /\ UNCHANGED <<site, host, upload_dir, bucket, videos, hls>>

\* home.py:1359-1361: f.save(file_path).
UploadSave(r) ==
    /\ req[r].pc = "named"
    /\ upload_dir' = upload_dir \cup {req[r].final}
    /\ req' = [req EXCEPT ![r].pc = "saved"]
    /\ UNCHANGED <<site, host, bucket, videos, hls>>

\* home.py:1364-1386: the put to the object store.
UploadStore(r) ==
    /\ req[r].pc = "saved"
    /\ IF supabase
       THEN \* open(file_path, "rb") raises when the file is gone; the put
            \* itself may raise, and it does when the key is taken (the
            \* call names no upsert option, home.py:1368-1372)
            \E put_ok \in (IF req[r].final \in upload_dir
                               /\ req[r].final \notin bucket
                            THEN BOOLEAN ELSE {FALSE}) :
              IF put_ok
              THEN /\ bucket' = bucket \cup {req[r].final}
                   /\ req' = [req EXCEPT ![r].pc = "stored",
                                         ![r].public_url = PublicUrl(req[r].final)]
                   /\ UNCHANGED upload_dir
              ELSE /\ upload_dir' = upload_dir \ {req[r].final}
                   /\ req' = [req EXCEPT ![r] =
                                [Finish(r, <<FlashStoreError>>, "upload_form")
                                    EXCEPT !.raised = "store"]]
                   /\ UNCHANGED bucket
       ELSE /\ req' = [req EXCEPT ![r] =
                         Finish(r, <<FlashNoSupabase>>, "upload_form")]
            /\ UNCHANGED <<upload_dir, bucket>>
    /\ UNCHANGED <<site, host, videos, hls>>

\* home.py:1388: os.path.exists(file_path).
UploadCleanupCheck(r) ==
    /\ req[r].pc = "stored"
    /\ req' = [req EXCEPT ![r].pc =
                 IF req[r].final \in upload_dir THEN "removing" ELSE "cleaned"]
    /\ UNCHANGED <<site, host, upload_dir, bucket, videos, hls>>

\* home.py:1389: os.remove(file_path); it raises when the file is gone, and
\* the handler's outer except (home.py:1410-1415) takes over.
UploadCleanupRemove(r) ==
    /\ req[r].pc = "removing"
    /\ IF req[r].final \in upload_dir
       THEN /\ upload_dir' = upload_dir \ {req[r].final}
            /\ req' = [req EXCEPT ![r].pc = "cleaned"]
       ELSE /\ req' = [req EXCEPT ![r] = OuterExcept(r, "remove")]
            /\ UNCHANGED upload_dir
    /\ UNCHANGED <<site, host, bucket, videos, hls>>

\* A commit step that, when the commit raises, goes back to try again.
UploadCommitRetry(r) ==
    /\ req[r].pc = "cleaned"
    /\ \E commit_ok \in BOOLEAN :
         IF commit_ok
         THEN LET id == Len(videos) + 1 IN
              /\ videos' = Append(videos,
                     NewVideo(id, req[r].final, req[r].public_url))
              /\ req' = [req EXCEPT ![r] =
                           [Finish(r, <<FlashSuccess>>, "watch")
                               EXCEPT !.video_id = id]]
         ELSE /\ req' = [req EXCEPT ![r].pc = "stored"]
              /\ UNCHANGED videos
    /\ UNCHANGED <<site, host, upload_dir, bucket, hls>>

\* home.py:1392-1415: the Video row is built and committed; a commit that
\* raises lands in the outer except.  to_hls is not read again and
\* transcode_to_hls is not called.
UploadCommit(r) ==
    /\ req[r].pc = "cleaned"
    /\ \E commit_ok \in BOOLEAN :
         IF commit_ok
         THEN LET id == Len(videos) + 1 IN
              /\ videos' = Append(videos,
                     NewVideo(id, req[r].final, req[r].public_url))
              /\ req' = [req EXCEPT ![r] =
                           [Finish(r, <<FlashSuccess>>, "watch")
                               EXCEPT !.video_id = id]]
         ELSE /\ req' = [req EXCEPT ![r] = OuterExcept(r, "commit")]
              /\ UNCHANGED videos
    /\ UNCHANGED <<site, host, upload_dir, bucket, hls>>

\* --------------------------------------------------------- transcode_to_hls
\* One line of a playlist file.
Line(tag, bandwidth, width, height, uri) ==
    [tag |-> tag, bandwidth |-> bandwidth, width |-> width, height |-> height,
     uri |-> uri]
Header(tag) == Line(tag, 0, 0, 0, "")
StreamInf(bandwidth, width, height) ==
    Line("#EXT-X-STREAM-INF", bandwidth, width, height, "")
Uri(uri) == Line("", 0, 0, 0, uri)
Data == <<Line("data", 0, 0, 0, "")>>

\* The engine invocation (home.py:201-214), by its per-stream options: entry
\* k + 1 of filter and crf is that of video stream k (-filter:v:k, -crf:k),
\* var_stream_map lists the variants in order, and %v in the segment and
\* playlist names is the variant's index.
Cmd ==
    [filter |-> <<[w |-> 640, h |-> 360], [w |-> 1280, h |-> 720]>>,
     crf |-> <<23, 21>>,
     var_stream_map |-> <<"v:0,a:0", "v:1,a:1">>,
     master_pl_name |-> "master.m3u8",
     hls_segment_filename |-> <<"v", "%v", "seg_%03d.ts">>,
     playlist |-> <<"v", "%v", "index.m3u8">>]

\* A master playlist that lists the 720p rendition first.
MasterManifestHighFirst ==
    <<Header("#EXTM3U"), Header("#EXT-X-VERSION:3"),
      StreamInf(2500000, 1280, 720), Uri("v1/index.m3u8"),
      StreamInf(800000, 640, 360), Uri("v0/index.m3u8")>>

\* The master playlist the repair step writes (home.py:224-226).
MasterManifest ==
    <<Header("#EXTM3U"), Header("#EXT-X-VERSION:3"),
      StreamInf(800000, 640, 360), Uri("v0/index.m3u8"),
      StreamInf(2500000, 1280, 720), Uri("v1/index.m3u8")>>

\* The master playlist the engine writes itself (-master_pl_name): it states
\* the bandwidths it measured and the codecs.
EngineMaster ==
    <<Header("#EXTM3U"), Header("#EXT-X-VERSION:3"),
      StreamInf(1031200, 640, 360), Uri("v0/index.m3u8"),
      StreamInf(2859400, 1280, 720), Uri("v1/index.m3u8")>>

StreamInfCount(content) ==
    Cardinality({i \in 1..Len(content) : content[i].tag = "#EXT-X-STREAM-INF"})

\* home.py:199: os.path.join(target_dir, "master.m3u8")
master_path(target_dir) == target_dir \o <<"master.m3u8">>

\* The arguments the model calls transcode_to_hls with: an input in
\* UPLOAD_DIR (present or gone), and an output directory below HLS_DIR or not.
InputPaths == {StoredName([base |-> "clip", ext |-> "mp4"], 0),
               StoredName([base |-> "intro", ext |-> "webm"], 0)}
TargetDirs == {HLS_DIR \o <<"clip">>, HLS_DIR \o <<"intro">>, BASE_DIR \o <<"out">>}

\* What one rendition's output holds: v%v/index.m3u8 and v%v/seg_%03d.ts
\* (home.py:212-213).
RenditionFiles(target_dir, v) ==
    (target_dir \o <<v, "index.m3u8">> :> Data) @@
    (target_dir \o <<v, "seg_000.ts">> :> Data)

\* The files of a run that exits 0; the engine may omit the master playlist.
EngineOutput(target_dir, writes_master) ==
    RenditionFiles(target_dir, "v0") @@ RenditionFiles(target_dir, "v1") @@
    (IF writes_master THEN master_path(target_dir) :> EngineMaster ELSE <<>>)

\* The files a run that exits non-zero may leave behind.
PartialOutputs(target_dir) ==
    { <<>>,
      (target_dir \o <<"v0", "seg_000.ts">> :> Data),
      RenditionFiles(target_dir, "v0") @@ (master_path(target_dir) :> EngineMaster) }

\* The engine's exit status on an input: an unreadable input fails.
EngineStatus(input_path) ==
    IF input_path \in upload_dir THEN engine_status ELSE 1

\* home.py:216-220: check=True raises CalledProcessError on a non-zero exit,
\* the except clause prints and re-raises; otherwise the repair step follows.
AfterEngineSwallow(status) == "repair"

AfterEngine(status) == IF status = 0 THEN "repair" ELSE "raised"

\* The repair step (home.py:222-226).
ManifestRepairSkip(files, target_dir) == files

ManifestRepairOverwrite(files, target_dir) ==
    (master_path(target_dir) :> MasterManifest) @@ files

ManifestRepair(files, target_dir) ==
    IF master_path(target_dir) \notin DOMAIN files
    THEN (master_path(target_dir) :> MasterManifest) @@ files
    ELSE files

\* os.path.relpath(path, start) on normalised absolute paths.
RECURSIVE CommonPrefixLen(_, _)
CommonPrefixLen(p, q) ==
    IF p # <<>> /\ q # <<>> /\ Head(p) = Head(q)
    THEN 1 + CommonPrefixLen(Tail(p), Tail(q))
    ELSE 0

\* A relpath that hands the path back as it came.
RelpathAbsolute(path, start) == path

relpath(path, start) ==
    LET k == CommonPrefixLen(path, start) IN
    [i \in 1..(Len(start) - k) |-> ".."] \o SubSeq(path, k + 1, Len(path))

\* The characters of stderr a failing engine run may leave: none, as many
\* as the log line takes, or one more.
StderrLens == {0, LogLimit, LogLimit + 1}

\* A log line that takes the diagnostic whole.
LoggedWhole(n) == n

\* home.py:219: e.stderr.decode(errors="ignore")[:2000], by its length.
Logged(n) == IF n > LogLimit THEN LogLimit ELSE n

\* A call of transcode_to_hls: its arguments, its position, the exception it
\* raised and the length of the stderr that exception carries, the length
\* of what it printed, and what it returned.
IdleCall ==
    [pc |-> "idle", input_path |-> NoName, target_dir |-> None,
     error |-> "", carried |-> 0, logged |-> 0, result |-> None,
     synthesized |-> FALSE]

\* home.py:196-198: the call starts; os.makedirs(target_dir, exist_ok=True).
TranscodeBegin(c) ==
    /\ call[c].pc = "idle"
    /\ \E i \in InputPaths, d \in TargetDirs :
         /\ call' = [call EXCEPT ![c].pc = "run", ![c].input_path = i,
                                 ![c].target_dir = d]
         /\ hls_dirs' = hls_dirs \cup {d}
    /\ UNCHANGED <<site, host, upload_dir, bucket, videos, hls_files, jobs, req>>

\* home.py:216-220: subprocess.run(cmd, check=True, ...).
TranscodeRun(c) ==
    /\ call[c].pc = "run"
    /\ IF ~ffmpeg_on_path
       THEN \* no executable to start: FileNotFoundError, not caught here
            /\ call' = [call EXCEPT ![c].pc = "raised",
                                    ![c].error = "FileNotFoundError"]
            /\ UNCHANGED <<hls_files, jobs>>
       ELSE LET status == EngineStatus(call[c].input_path)
                d == call[c].target_dir
            IN
            /\ jobs' = Append(jobs, [by |-> <<"call", c>>, target_dir |-> d,
                                     cmd |-> Cmd, status |-> status])
            /\ IF status = 0
               THEN call' = [call EXCEPT ![c].pc = AfterEngine(status)]
               ELSE \* the except clause prints the head of e.stderr and
                    \* raises e again, as it was caught
                    \E n \in StderrLens :
                      call' = [call EXCEPT ![c].pc = AfterEngine(status),
                                           ![c].error = "CalledProcessError",
                                           ![c].carried = n,
                                           ![c].logged = Logged(n)]
            /\ IF status = 0
               THEN \E writes_master \in BOOLEAN :
                      hls_files' = EngineOutput(d, writes_master) @@ hls_files
               ELSE \E out \in PartialOutputs(d) :
                      hls_files' = out @@ hls_files
    /\ UNCHANGED <<site, host, upload_dir, bucket, videos, hls_dirs, req>>

\* home.py:222-226: the repair step.
TranscodeRepair(c) ==
    /\ call[c].pc = "repair"
    /\ hls_files' = ManifestRepair(hls_files, call[c].target_dir)
    /\ call' = [call EXCEPT ![c].pc = "return",
                            ![c].synthesized =
                                master_path(call[c].target_dir) \notin DOMAIN hls_files]
    /\ UNCHANGED <<site, host, upload_dir, bucket, videos, hls_dirs, jobs, req>>

\* home.py:228-229: the relative path is returned.
TranscodeReturn(c) ==
    /\ call[c].pc = "return"
    /\ call' = [call EXCEPT ![c].pc = "returned",
                            ![c].result =
                                relpath(master_path(call[c].target_dir), HLS_DIR)]
    /\ UNCHANGED <<site, host, upload_dir, bucket, videos, hls_dirs, hls_files, jobs, req>>

\* ------------------------------------------------------- the other handlers
\* The rows of users the model keeps: id, is_admin, display_name and email
\* (models.py:8-17).  The first is an administrator, the others are not.
UserId == 1 .. MaxUsers
DisplayNames == {"Demo", "Neo"}

\* username.lower().replace(' ', '') of register (home.py:917) on the names
\* the model uses; a name in lower case without a space is left as it is.
lower(username) ==
    CASE username = "Demo" -> "demo"
      [] username = "Neo" -> "neo"
      [] username = "N eo" -> "neo"
      [] username = "Ava" -> "ava"
      [] username = "Zoe" -> "zoe"
      [] username = "Kim" -> "kim"
      [] OTHER -> username

\* home.py:917: the address register gives an account.
LocalEmail(username) == [local |-> lower(username), domain |-> "mitabo.local"]

\* home.py:237: the account init_db creates; the accounts after it were
\* registered under the names of UserNames.
DemoEmail == [local |-> "demo", domain |-> "mitabo.dev"]
UserNames == <<"Demo", "Ava", "Zoe", "Kim">>
User(id, display_name, email, is_admin) ==
    [id |-> id, is_admin |-> is_admin, display_name |-> display_name,
     email |-> email]
InitUsers ==
    {User(u, UserNames[u],
          IF u = 1 THEN DemoEmail ELSE LocalEmail(UserNames[u]), u = 1) :
       u \in UserId}

\* models.py:134-141 and 144-151: a row of follows, a row of xp.
Follow(id, follower_id, followed_id) ==
    [id |-> id, follower_id |-> follower_id, followed_id |-> followed_id]
Xp(id, user_id, video_id) == [id |-> id, user_id |-> user_id, video_id |-> video_id]
NoRow == [id |-> 0]

\* A follow_user, give_xp, register or parametres request between its
\* statements: the signed-in user, the id or the name in the request, and
\* what its query returned; or the answer of a ban_user or promote_user
\* request.  Web are the requests made.
Web == 1 .. MaxWeb
IdleWeb == [pc |-> "idle", op |-> "", user |-> 0, target |-> 0, name |-> "",
            existing |-> NoRow, status |-> 0, flash |-> ""]

\* The answer of a follow, xp, register or settings request.
Done(w, status) == [web EXCEPT ![w].pc = "done", ![w].status = status]
RowId == 1 .. MaxRowId

\* models.py:123-131: a row of likes.
Like(id, user_id, video_id, is_like) ==
    [id |-> id, user_id |-> user_id, video_id |-> video_id, is_like |-> is_like]
LikeId == 1 .. MaxLikeId

\* The result of Like.query.filter_by(...).first() a request holds: None, or
\* the row as it was read.
NoLike == Like(0, 0, 0, FALSE)

\* A like_video / dislike_video request between its statements.  Sess are
\* the requests made.
Sess == 1 .. MaxSess
IdleSess == [pc |-> "idle", op |-> "", user |-> 0, video |-> 0,
             existing |-> NoLike, status |-> 0]

\* home.py:246-255: the demonstration video init_db creates, which has an
\* external URL and neither a file nor a manifest.
DemoUrl == <<"https:", "BigBuckBunny.mp4">>
DemoVideo(id) ==
    [id |-> id, filename |-> NoName, external_url |-> DemoUrl,
     hls_manifest |-> None, views |-> 0]

\* A row of videos written by a caller of transcode_to_hls outside
\* upload_post: a file, no external URL, and the manifest of its packaging.
LegacyManifest == <<"legacy", "master.m3u8">>
LegacyVideo(id) ==
    [id |-> id, filename |-> StoredName([base |-> "legacy", ext |-> "mp4"], 0),
     external_url |-> None, hls_manifest |-> LegacyManifest, views |-> 0]

VideoId == 1 .. Len(videos)

\* What a page or the JSON list shows of a video: the watch page renders
\* video.source_url (home.py:553, 675), /api/videos also bool(hls_manifest)
\* (home.py:1492-1493).
Item(v) ==
    [id |-> v.id, source_url |-> source_url(v), hls |-> (v.hls_manifest # None)]

\* A watch handler that also drops the manifest reference of the row.
WatchClearsManifest(id) ==
    /\ id \in VideoId
    /\ videos[id].views < MaxViews
    /\ \E commit_ok \in BOOLEAN :
         IF commit_ok
         THEN /\ videos' = [videos EXCEPT ![id].views = @ + 1,
                                          ![id].hls_manifest = None]
              /\ page' = <<Item(videos'[id])>>
         ELSE /\ page' = <<>>
              /\ UNCHANGED videos
    /\ UNCHANGED <<users, likes, comments, sess, social, host, upload_dir,
                   bucket,
                   hls, req>>

\* home.py:1275-1316: views is incremented and committed, then the page is
\* rendered; when the commit raises the answer is the error text.
watch(id) ==
    /\ id \in VideoId
    /\ videos[id].views < MaxViews
    /\ \E commit_ok \in BOOLEAN :
         IF commit_ok
         THEN /\ videos' = [videos EXCEPT ![id].views = @ + 1]
              /\ page' = <<Item(videos'[id])>>
         ELSE /\ page' = <<>>
              /\ UNCHANGED videos
    /\ UNCHANGED <<users, likes, comments, sess, social, host, upload_dir,
                   bucket,
                   hls, req>>

\* home.py:1458-1500: the list of /api/videos, newest first.
api_videos ==
    /\ page' = [i \in VideoId |-> Item(videos[Len(videos) + 1 - i])]
    /\ UNCHANGED <<users, likes, comments, sess, social, host, upload_dir,
                   bucket,
                   videos, hls, req>>

\* home.py:1437-1453: a comment of a logged-in user; an empty body adds
\* nothing.
comment_post(u, id) ==
    /\ u \in {x.id : x \in users}
    /\ id \in VideoId
    /\ Len(comments) < MaxComments
    /\ \E empty \in BOOLEAN, commit_ok \in BOOLEAN :
         IF ~empty /\ commit_ok
         THEN comments' = Append(comments,
                  [id |-> Len(comments) + 1, video_id |-> id, user_id |-> u])
         ELSE UNCHANGED comments
    /\ UNCHANGED <<users, likes, sess, page, social, host, upload_dir,
                   bucket, videos,
                   hls, req>>

\* home.py:1050-1062: the profile form of the settings page with a display
\* name and the other fields left empty.  A name that is empty or the
\* caller's own is left alone, a name another user has is refused, and the
\* session is committed (home.py:1075); otherwise the name is assigned and
\* waits for the commit.
ParamQuery(w, u, new_display_name) ==
    /\ web[w].pc = "idle"
    /\ \E cur \in users :
         /\ cur.id = u
         /\ LET found == {x \in users : x.display_name = new_display_name}
                q == [IdleWeb EXCEPT !.op = "parametres", !.user = u,
                                     !.name = new_display_name]
            IN
            IF new_display_name = "" \/ new_display_name = cur.display_name
            THEN web' = [web EXCEPT ![w] = [q EXCEPT !.pc = "done",
                                                     !.status = 302]]
            ELSE IF found # {}
            THEN \E existing \in found :
                   web' = [web EXCEPT ![w] =
                             [q EXCEPT !.pc = "done", !.status = 302,
                                       !.existing = existing,
                                       !.flash = "deja pris"]]
            ELSE web' = [web EXCEPT ![w] = [q EXCEPT !.pc = "read"]]
    /\ UNCHANGED <<users, likes, comments, sess, page, follows, xps, host,
                   upload_dir, bucket, videos, hls, req>>

\* home.py:1063-1076: the commit of the name assigned.  The UPDATE of a row
\* that is gone raises.
ParamCommit(w) ==
    /\ web[w].pc = "read"
    /\ web[w].op = "parametres"
    /\ LET q == web[w] IN
       IF \E x \in users : x.id = q.user
       THEN /\ users' = {IF x.id = q.user
                         THEN [x EXCEPT !.display_name = q.name]
                         ELSE x : x \in users}
            /\ web' = [web EXCEPT ![w].pc = "done", ![w].status = 302,
                                  ![w].flash = "mis a jour"]
       ELSE /\ web' = Done(w, 500)
            /\ UNCHANGED users
    /\ UNCHANGED <<likes, comments, sess, page, follows, xps, host, upload_dir,
                   bucket, videos, hls, req>>

\* home.py:1044-1076
parametres(w, u, new_display_name) ==
    \/ ParamQuery(w, u, new_display_name)
    \/ web[w].user = u /\ web[w].name = new_display_name /\ ParamCommit(w)

\* home.py:905-916: a registration without a username is sent back to the
\* form, and so is one whose username is the display name of a user;
\* otherwise the account is built and waits for the commit.
RegisterQuery(w, username) ==
    /\ web[w].pc = "idle"
    /\ LET found == {x \in users : x.display_name = username}
           q == [IdleWeb EXCEPT !.op = "register", !.name = username]
       IN
       IF username = ""
       THEN web' = [web EXCEPT ![w] = [q EXCEPT !.pc = "done", !.status = 302,
                                                !.flash = "remplir"]]
       ELSE IF found # {}
       THEN \E existing \in found :
              web' = [web EXCEPT ![w] =
                        [q EXCEPT !.pc = "done", !.status = 302,
                                  !.existing = existing,
                                  !.flash = "existe deja"]]
       ELSE web' = [web EXCEPT ![w] = [q EXCEPT !.pc = "read"]]
    /\ UNCHANGED <<users, likes, comments, sess, page, follows, xps, host,
                   upload_dir, bucket, videos, hls, req>>

\* home.py:918-925: the account is added and the session committed.  The
\* INSERT is refused when a user has the address (models.py:11), and the
\* handler, which has no except clause, answers 500.  The account is not
\* an administrator (models.py:17).
RegisterCommit(w) ==
    /\ web[w].pc = "read"
    /\ web[w].op = "register"
    /\ LET username == web[w].name
           email == LocalEmail(username)
       IN
       IF \E x \in users : x.email = email
       THEN /\ web' = Done(w, 500)
            /\ UNCHANGED users
       ELSE \E id \in UserId \ {x.id : x \in users} :
              /\ users' = users \cup {User(id, username, email, FALSE)}
              /\ web' = [web EXCEPT ![w].pc = "done", ![w].status = 302,
                                    ![w].target = id,
                                    ![w].flash = "Inscription reussie"]
    /\ UNCHANGED <<likes, comments, sess, page, follows, xps, host, upload_dir,
                   bucket, videos, hls, req>>

\* The usernames of the registration forms.
Usernames == DisplayNames \cup {"", "N eo"}

\* home.py:903-925
register(w) ==
    \/ \E username \in Usernames : RegisterQuery(w, username)
    \/ RegisterCommit(w)

\* The rows that keep user u from being deleted: the user_id of likes,
\* comments and xp and the two columns of follows are NOT NULL
\* (models.py:117, 126, 137-138, 147).
RefersTo(u) ==
    \/ \E l \in likes : l.user_id = u
    \/ \E i \in 1 .. Len(comments) : comments[i].user_id = u
    \/ \E x \in xps : x.user_id = u
    \/ \E f \in follows : u \in {f.follower_id, f.followed_id}

\* The answer of ban_user and promote_user: a redirect to the home page
\* with the message flashed, if any.
Redirect(w, op, a, u, flash) ==
    [web EXCEPT ![w] = [IdleWeb EXCEPT !.pc = "done", !.op = op, !.user = a,
                                       !.target = u, !.status = 302,
                                       !.flash = flash]]

\* A ban that does not ask whether the caller is an administrator.
BanUserNoAdminCheck(w, a, u) ==
    /\ web[w].pc = "idle"
    /\ \E cur \in users :
         /\ cur.id = a
         /\ IF \E user \in users : user.id = u
            THEN IF u = a
                 THEN /\ web' = Redirect(w, "ban", a, u, "")
                      /\ UNCHANGED users
                 ELSE IF RefersTo(u)
                 THEN /\ web' = Redirect(w, "ban", a, u, "Erreur")
                      /\ UNCHANGED users
                 ELSE /\ web' = Redirect(w, "ban", a, u, "banni")
                      /\ users' = {x \in users : x.id # u}
            ELSE /\ web' = Redirect(w, "ban", a, u, "Erreur")
                 /\ UNCHANGED users
    /\ UNCHANGED <<likes, comments, sess, page, follows, xps, host, upload_dir,
                   bucket, videos, hls, req>>

\* home.py:1615-1633: a caller who is not an administrator is refused; an
\* administrator deletes another user's row and leaves their own.  A user
\* who is not there, or one rows of other tables refer to, makes the
\* handler flash its error.
ban_user(w, a, u) ==
    /\ web[w].pc = "idle"
    /\ \E cur \in users :
         /\ cur.id = a
         /\ IF ~cur.is_admin
            THEN /\ web' = Redirect(w, "ban", a, u, "Acces refuse")
                 /\ UNCHANGED users
            ELSE IF \E user \in users : user.id = u
            THEN IF u = a
                 THEN /\ web' = Redirect(w, "ban", a, u, "")
                      /\ UNCHANGED users
                 ELSE IF RefersTo(u)
                 THEN /\ web' = Redirect(w, "ban", a, u, "Erreur")
                      /\ UNCHANGED users
                 ELSE /\ web' = Redirect(w, "ban", a, u, "banni")
                      /\ users' = {x \in users : x.id # u}
            ELSE /\ web' = Redirect(w, "ban", a, u, "Erreur")
                 /\ UNCHANGED users
    /\ UNCHANGED <<likes, comments, sess, page, follows, xps, host, upload_dir,
                   bucket, videos, hls, req>>

\* home.py:1635-1652: a caller who is not an administrator is refused; an
\* administrator makes a user an administrator.
promote_user(w, a, u) ==
    /\ web[w].pc = "idle"
    /\ \E cur \in users :
         /\ cur.id = a
         /\ IF ~cur.is_admin
            THEN /\ web' = Redirect(w, "promote", a, u, "Acces refuse")
                 /\ UNCHANGED users
            ELSE IF \E user \in users : user.id = u
            THEN /\ web' = Redirect(w, "promote", a, u, "promu admin")
                 /\ users' = {IF x.id = u THEN [x EXCEPT !.is_admin = TRUE]
                                         ELSE x : x \in users}
            ELSE /\ web' = Redirect(w, "promote", a, u, "Erreur")
                 /\ UNCHANGED users
    /\ UNCHANGED <<likes, comments, sess, page, follows, xps, host, upload_dir,
                   bucket, videos, hls, req>>

\* home.py:1510-1512 and 1531-1533: the video is looked up and the caller's
\* row of likes for it, if any, is read.  is_like tells like_video from
\* dislike_video.
LikeQuery(s, is_like, u, id) ==
    /\ sess[s].pc = "idle"
    /\ u \in {x.id : x \in users}
    /\ id \in VideoId
    /\ LET found == {l \in likes : l.user_id = u /\ l.video_id = id} IN
       \E existing \in (IF found = {} THEN {NoLike} ELSE found) :
         sess' = [sess EXCEPT ![s] =
                    [pc |-> "read", op |-> IF is_like THEN "like" ELSE "dislike",
                     user |-> u, video |-> id, existing |-> existing,
                     status |-> 0]]
    /\ UNCHANGED <<users, likes, comments, page, social, host, upload_dir,
                   bucket,
                   videos, hls, req>>

\* The answer of a request: 200 with the counts, or 500 from the except
\* clause (home.py:1522-1525, 1543-1546).
Answer(s, status) == [sess EXCEPT ![s].pc = "done", ![s].status = status]

\* A commit that leaves a row of the request's own kind where it is.
LikeCommitNoToggle(s) ==
    /\ sess[s].pc = "read"
    /\ LET q == sess[s]
           want == (q.op = "like") IN
       IF q.existing = NoLike
       THEN IF \E l \in likes : l.user_id = q.user /\ l.video_id = q.video
            THEN /\ sess' = Answer(s, 500)
                 /\ UNCHANGED likes
            ELSE \E id \in LikeId \ {l.id : l \in likes} :
                   /\ likes' = likes \cup {Like(id, q.user, q.video, want)}
                   /\ sess' = Answer(s, 200)
       ELSE /\ likes' = {IF l.id = q.existing.id
                         THEN [l EXCEPT !.is_like = want] ELSE l : l \in likes}
            /\ sess' = Answer(s, 200)
    /\ UNCHANGED <<users, comments, page, social, host, upload_dir,
                   bucket, videos,
                   hls, req>>

\* A commit whose INSERT is not checked against the rows already there.
LikeCommitUnchecked(s) ==
    /\ sess[s].pc = "read"
    /\ LET q == sess[s]
           want == (q.op = "like") IN
       IF q.existing = NoLike
       THEN \E id \in LikeId \ {l.id : l \in likes} :
              /\ likes' = likes \cup {Like(id, q.user, q.video, want)}
              /\ sess' = Answer(s, 200)
       ELSE /\ likes' = {l \in likes : l.id # q.existing.id}
            /\ sess' = Answer(s, 200)
    /\ UNCHANGED <<users, comments, page, social, host, upload_dir,
                   bucket, videos,
                   hls, req>>

\* home.py:1513-1521 and 1534-1542: the row read is deleted, or updated, or
\* a new row is added, and the session is committed.  The INSERT is refused
\* when a row of the same user and video is there (models.py:131), the
\* UPDATE when the row it names is gone; the DELETE of a row that is gone
\* changes nothing.
LikeCommit(s) ==
    /\ sess[s].pc = "read"
    /\ LET q == sess[s]
           want == (q.op = "like") IN
       IF q.existing = NoLike
       THEN IF \E l \in likes : l.user_id = q.user /\ l.video_id = q.video
            THEN /\ sess' = Answer(s, 500)
                 /\ UNCHANGED likes
            ELSE \E id \in LikeId \ {l.id : l \in likes} :
                   /\ likes' = likes \cup {Like(id, q.user, q.video, want)}
                   /\ sess' = Answer(s, 200)
       ELSE IF q.existing.is_like = want
       THEN /\ likes' = {l \in likes : l.id # q.existing.id}
            /\ sess' = Answer(s, 200)
       ELSE IF \E l \in likes : l.id = q.existing.id
       THEN /\ likes' = {IF l.id = q.existing.id
                         THEN [l EXCEPT !.is_like = want] ELSE l : l \in likes}
            /\ sess' = Answer(s, 200)
       ELSE /\ sess' = Answer(s, 500)
            /\ UNCHANGED likes
    /\ UNCHANGED <<users, comments, page, social, host, upload_dir,
                   bucket, videos,
                   hls, req>>

\* home.py:1506-1525
like_video(s) ==
    \/ \E u \in UserId, id \in VideoId : LikeQuery(s, TRUE, u, id)
    \/ sess[s].op = "like" /\ LikeCommit(s)

\* home.py:1527-1546
dislike_video(s) ==
    \/ \E u \in UserId, id \in VideoId : LikeQuery(s, FALSE, u, id)
    \/ sess[s].op = "dislike" /\ LikeCommit(s)

\* A request that goes on to read and commit when the target is the caller.
FollowQueryAnyTarget(w, u, user_id) ==
    /\ web[w].pc = "idle"
    /\ u \in {x.id : x \in users}
    /\ IF user_id \notin {x.id : x \in users}
       THEN web' = [web EXCEPT ![w] =
                      [IdleWeb EXCEPT !.pc = "done", !.op = "follow",
                                      !.user = u, !.target = user_id,
                                      !.status = 500]]
       ELSE LET found == {f \in follows : f.follower_id = u
                                          /\ f.followed_id = user_id} IN
            \E existing \in (IF found = {} THEN {NoRow} ELSE found) :
              web' = [web EXCEPT ![w] =
                        [IdleWeb EXCEPT !.pc = "read", !.op = "follow",
                                        !.user = u, !.target = user_id,
                                        !.existing = existing]]
    /\ UNCHANGED <<users, likes, comments, sess, page, follows, xps, host,
                   upload_dir, bucket, videos, hls, req>>

\* home.py:1594-1598: a request to follow oneself is answered 400 before
\* anything is read; a target that is not in users raises NotFound, which
\* the except clause answers 500; otherwise the caller's row for the target,
\* if any, is read.
FollowQuery(w, u, user_id) ==
    /\ web[w].pc = "idle"
    /\ u \in {x.id : x \in users}
    /\ IF user_id = u
       THEN web' = [web EXCEPT ![w] =
                      [IdleWeb EXCEPT !.pc = "done", !.op = "follow",
                                      !.user = u, !.target = user_id,
                                      !.status = 400]]
       ELSE IF user_id \notin {x.id : x \in users}
       THEN web' = [web EXCEPT ![w] =
                      [IdleWeb EXCEPT !.pc = "done", !.op = "follow",
                                      !.user = u, !.target = user_id,
                                      !.status = 500]]
       ELSE LET found == {f \in follows : f.follower_id = u
                                          /\ f.followed_id = user_id} IN
            \E existing \in (IF found = {} THEN {NoRow} ELSE found) :
              web' = [web EXCEPT ![w] =
                        [IdleWeb EXCEPT !.pc = "read", !.op = "follow",
                                        !.user = u, !.target = user_id,
                                        !.existing = existing]]
    /\ UNCHANGED <<users, likes, comments, sess, page, follows, xps, host,
                   upload_dir, bucket, videos, hls, req>>

\* home.py:1600-1607: the row read is deleted, or a new row is added, and
\* the session is committed.  The INSERT is refused when a row of the same
\* follower and followed is there (models.py:141) or one of the two users
\* is gone (models.py:137-138); the DELETE of a row that is gone changes
\* nothing.
FollowCommit(w) ==
    /\ web[w].pc = "read"
    /\ web[w].op = "follow"
    /\ LET q == web[w] IN
       IF q.existing = NoRow
       THEN IF \/ \E f \in follows : f.follower_id = q.user
                                      /\ f.followed_id = q.target
               \/ {q.user, q.target} \ {x.id : x \in users} # {}
            THEN /\ web' = Done(w, 500)
                 /\ UNCHANGED follows
            ELSE \E id \in RowId \ {f.id : f \in follows} :
                   /\ follows' = follows \cup {Follow(id, q.user, q.target)}
                   /\ web' = Done(w, 200)
       ELSE /\ follows' = {f \in follows : f.id # q.existing.id}
            /\ web' = Done(w, 200)
    /\ UNCHANGED <<users, likes, comments, sess, page, xps, host, upload_dir,
                   bucket, videos, hls, req>>

\* home.py:1591-1610
follow_user(w) ==
    \/ \E u \in UserId, user_id \in 0 .. MaxUsers : FollowQuery(w, u, user_id)
    \/ FollowCommit(w)

\* home.py:1552-1554: a video that is not in the table raises NotFound,
\* which the except clause answers 500; otherwise the caller's row of xp for
\* the video, if any, is read, and a caller who has one is answered the count
\* (home.py:1559).
XpQuery(w, u, video_id) ==
    /\ web[w].pc = "idle"
    /\ u \in {x.id : x \in users}
    /\ IF video_id \notin VideoId
       THEN web' = [web EXCEPT ![w] =
                      [IdleWeb EXCEPT !.pc = "done", !.op = "xp", !.user = u,
                                      !.target = video_id, !.status = 500]]
       ELSE LET found == {x \in xps : x.user_id = u /\ x.video_id = video_id} IN
            IF found = {}
            THEN web' = [web EXCEPT ![w] =
                           [IdleWeb EXCEPT !.pc = "read", !.op = "xp",
                                           !.user = u, !.target = video_id]]
            ELSE \E existing \in found :
                   web' = [web EXCEPT ![w] =
                             [IdleWeb EXCEPT !.pc = "done", !.op = "xp",
                                             !.user = u, !.target = video_id,
                                             !.existing = existing,
                                             !.status = 200]]
    /\ UNCHANGED <<users, likes, comments, sess, page, follows, xps, host,
                   upload_dir, bucket, videos, hls, req>>

\* A commit whose INSERT is not checked against the rows already there.
XpCommitUnchecked(w) ==
    /\ web[w].pc = "read"
    /\ web[w].op = "xp"
    /\ \E id \in RowId \ {x.id : x \in xps} :
         /\ xps' = xps \cup {Xp(id, web[w].user, web[w].target)}
         /\ web' = Done(w, 200)
    /\ UNCHANGED <<users, likes, comments, sess, page, follows, host,
                   upload_dir, bucket, videos, hls, req>>

\* home.py:1555-1559: a row is added and the session committed.  The INSERT
\* is refused when a row of the same user and video is there
\* (models.py:151) or the user is gone (models.py:147).
XpCommit(w) ==
    /\ web[w].pc = "read"
    /\ web[w].op = "xp"
    /\ LET q == web[w] IN
       IF \/ \E x \in xps : x.user_id = q.user /\ x.video_id = q.target
          \/ q.user \notin {x.id : x \in users}
       THEN /\ web' = Done(w, 500)
            /\ UNCHANGED xps
       ELSE \E id \in RowId \ {x.id : x \in xps} :
              /\ xps' = xps \cup {Xp(id, q.user, q.target)}
              /\ web' = Done(w, 200)
    /\ UNCHANGED <<users, likes, comments, sess, page, follows, host,
                   upload_dir, bucket, videos, hls, req>>

\* home.py:1548-1562
give_xp(w) ==
    \/ \E u \in UserId, video_id \in 0 .. Len(videos) : XpQuery(w, u, video_id)
    \/ XpCommit(w)

\* A database with nothing in tables likes and comments and no request
\* under way.
InitSite ==
    /\ users = InitUsers
    /\ likes = {}
    /\ comments = <<>>
    /\ sess = [s \in Sess |-> IdleSess]
    /\ page = <<>>
    /\ follows = {}
    /\ xps = {}
    /\ web = [w \in Web |-> IdleWeb]

Init ==
    /\ ffmpeg_on_path \in BOOLEAN
    /\ engine_status \in {0, 1}
    /\ supabase \in BOOLEAN
    /\ upload_dir = {}
    /\ bucket = {}
    /\ videos = <<>>
    /\ hls_dirs = {}
    /\ hls_files = <<>>
    /\ jobs = <<>>
    /\ req = [r \in Req |-> IdleReq]
    /\ call = [c \in Caller |-> IdleCall]
    /\ InitSite

Next ==
    \E r \in Req :
        \/ UploadReceive(r)
        \/ UploadSave(r)
        \/ UploadStore(r)
        \/ UploadCleanupCheck(r)
        \/ UploadCleanupRemove(r)
        \/ UploadCommit(r)

Spec == Init /\ [][Next]_vars
\* transcode_to_hls called as a function, on a host where one upload is
\* still in UPLOAD_DIR.
InitTranscode ==
    /\ ffmpeg_on_path \in BOOLEAN
    /\ engine_status \in {0, 1}
    /\ supabase \in BOOLEAN
    /\ upload_dir = {StoredName([base |-> "clip", ext |-> "mp4"], 0)}
    /\ bucket = {}
    /\ videos = <<>>
    /\ hls_dirs = {}
    /\ hls_files = <<>>
    /\ jobs = <<>>
    /\ req = [r \in Req |-> IdleReq]
    /\ call = [c \in Caller |-> IdleCall]
    /\ InitSite

NextTranscode ==
    \E c \in Caller :
        \/ TranscodeBegin(c)
        \/ TranscodeRun(c)
        \/ TranscodeRepair(c)
        \/ TranscodeReturn(c)

SpecTranscode == InitTranscode /\ [][NextTranscode]_vars

\* The steps of upload_post after the form is read: straight-line code, each
\* step of which returns.
UploadStep(r) ==
    \/ UploadSave(r)
    \/ UploadStore(r)
    \/ UploadCleanupCheck(r)
    \/ UploadCleanupRemove(r)
    \/ UploadCommit(r)

FairSpec == Spec /\ \A r \in Req : WF_vars(UploadStep(r))

\* The site in service with the given rows in table videos; the output of
\* the packaged video is under HLS_DIR.  The host's ffmpeg is read by none
\* of the handlers below.
InitSiteTables(rows) ==
    /\ ffmpeg_on_path = TRUE
    /\ engine_status = 0
    /\ upload_dir = {}
    /\ bucket = {}
    /\ videos = rows
    /\ hls_dirs = {HLS_DIR \o <<"legacy">>}
    /\ hls_files = EngineOutput(HLS_DIR \o <<"legacy">>, TRUE)
    /\ jobs = <<>>
    /\ req = [r \in Req |-> IdleReq]
    /\ call = [c \in Caller |-> IdleCall]
    /\ InitSite

\* like_video and dislike_video requests of the users, in any interleaving.
InitLikes ==
    /\ supabase = TRUE
    /\ InitSiteTables(<<DemoVideo(1), LegacyVideo(2)>>)

NextLikes ==
    \E s \in Sess :
        \/ like_video(s)
        \/ dislike_video(s)

SpecLikes == InitLikes /\ [][NextLikes]_vars

\* Two like_video / dislike_video requests on a table that already holds
\* nothing, a like or a dislike of user 1 for video 1.
InitReact ==
    /\ ffmpeg_on_path = TRUE
    /\ engine_status = 0
    /\ supabase = TRUE
    /\ upload_dir = {}
    /\ bucket = {}
    /\ videos = <<DemoVideo(1), LegacyVideo(2)>>
    /\ hls_dirs = {HLS_DIR \o <<"legacy">>}
    /\ hls_files = EngineOutput(HLS_DIR \o <<"legacy">>, TRUE)
    /\ jobs = <<>>
    /\ req = [r \in Req |-> IdleReq]
    /\ call = [c \in Caller |-> IdleCall]
    /\ users = InitUsers
    /\ likes \in {{}, {Like(1, 1, 1, TRUE)}, {Like(1, 1, 1, FALSE)}}
    /\ comments = <<>>
    /\ sess = [s \in Sess |-> IdleSess]
    /\ page = <<>>
    /\ follows = {}
    /\ xps = {}
    /\ web = [w \in Web |-> IdleWeb]

NextReact ==
    \E s \in {1, 2} :
        \/ like_video(s)
        \/ dislike_video(s)

SpecReact == InitReact /\ [][NextReact]_vars

\* The follow requests of the users, on a table follows that is empty or
\* holds the row of user 1 following user 2.
InitFollow ==
    /\ ffmpeg_on_path = TRUE
    /\ engine_status = 0
    /\ supabase = TRUE
    /\ upload_dir = {}
    /\ bucket = {}
    /\ videos = <<DemoVideo(1)>>
    /\ hls_dirs = {}
    /\ hls_files = <<>>
    /\ jobs = <<>>
    /\ req = [r \in Req |-> IdleReq]
    /\ call = [c \in Caller |-> IdleCall]
    /\ users = InitUsers
    /\ likes = {}
    /\ comments = <<>>
    /\ sess = [s \in Sess |-> IdleSess]
    /\ page = <<>>
    /\ follows \in {{}, {Follow(1, 1, 2)}}
    /\ xps = {}
    /\ web = [w \in Web |-> IdleWeb]

NextFollow == \E w \in Web : follow_user(w)

SpecFollow == InitFollow /\ [][NextFollow]_vars

\* The xp requests of the users for two videos, and an administrator who
\* deletes users meanwhile.
InitXp ==
    /\ supabase = TRUE
    /\ InitSiteTables(<<DemoVideo(1), LegacyVideo(2)>>)

NextXp ==
    \/ \E w \in Web : give_xp(w)
    \/ \E w \in Web, u \in UserId : ban_user(w, 1, u)

SpecXp == InitXp /\ [][NextXp]_vars

\* The requests that write table users, of any caller in any interleaving:
\* ban_user, promote_user, register and the profile form of parametres.
InitAdmin ==
    /\ supabase = TRUE
    /\ InitSiteTables(<<DemoVideo(1)>>)

NextAdmin ==
    \E w \in Web :
        \/ \E a \in UserId, u \in UserId : ban_user(w, a, u)
        \/ \E a \in UserId, u \in UserId : promote_user(w, a, u)
        \/ register(w)
        \/ \E u \in UserId, n \in DisplayNames : parametres(w, u, n)

SpecAdmin == InitAdmin /\ [][NextAdmin]_vars

\* Registrations and profile forms in any interleaving, on a table users
\* that holds the account of init_db.
InitNames ==
    /\ ffmpeg_on_path = TRUE
    /\ engine_status = 0
    /\ supabase = TRUE
    /\ upload_dir = {}
    /\ bucket = {}
    /\ videos = <<DemoVideo(1)>>
    /\ hls_dirs = {}
    /\ hls_files = <<>>
    /\ jobs = <<>>
    /\ req = [r \in Req |-> IdleReq]
    /\ call = [c \in Caller |-> IdleCall]
    /\ users = {x \in InitUsers : x.id = 1}
    /\ likes = {}
    /\ comments = <<>>
    /\ sess = [s \in Sess |-> IdleSess]
    /\ page = <<>>
    /\ follows = {}
    /\ xps = {}
    /\ web = [w \in Web |-> IdleWeb]

NextNames ==
    \E w \in Web :
        \/ register(w)
        \/ \E u \in UserId, n \in DisplayNames : parametres(w, u, n)

SpecNames == InitNames /\ [][NextNames]_vars

\* One upload request, and readers of the table while it is under way.
InitWeb ==
    /\ supabase \in BOOLEAN
    /\ InitSiteTables(<<DemoVideo(1), LegacyVideo(2)>>)

NextWeb ==
    \/ UploadReceive(1)
    \/ UploadSave(1)
    \/ UploadStore(1)
    \/ UploadCleanupCheck(1)
    \/ UploadCleanupRemove(1)
    \/ UploadCommit(1)
    \/ \E id \in VideoId : watch(id)
    \/ api_videos

SpecWeb == InitWeb /\ [][NextWeb]_vars

\* Every handler that writes to the database, on a table that holds a
\* packaged video: one upload request, one like or dislike request of any
\* user, and the administrator (user 1) watching, commenting, changing the
\* display name, banning and promoting.
InitOps ==
    /\ supabase = TRUE
    /\ InitSiteTables(<<LegacyVideo(1)>>)

NextOps ==
    \/ UploadReceive(1)
    \/ UploadSave(1)
    \/ UploadStore(1)
    \/ UploadCleanupCheck(1)
    \/ UploadCleanupRemove(1)
    \/ UploadCommit(1)
    \/ \E id \in VideoId : watch(id)
    \/ \E id \in VideoId : comment_post(1, id)
    \/ \E n \in DisplayNames : parametres(1, 1, n)
    \/ \E u \in UserId : ban_user(1, 1, u)
    \/ \E u \in UserId : promote_user(1, 1, u)
    \/ like_video(1)
    \/ dislike_video(1)

SpecOps == InitOps /\ [][NextOps]_vars

\* Video.source_url on its own: a table of two rows, each with any choice of
\* external_url, hls_manifest and filename set or not, read through the
\* watch page and /api/videos.
Rows(id) ==
    {[id |-> id, filename |-> f, external_url |-> e, hls_manifest |-> h,
      views |-> 0] :
        f \in {NoName, StoredName([base |-> "legacy", ext |-> "mp4"], 0)},
        e \in {None, DemoUrl},
        h \in {None, LegacyManifest}}

InitSource ==
    /\ ffmpeg_on_path = TRUE
    /\ engine_status = 0
    /\ supabase = TRUE
    /\ upload_dir = {}
    /\ bucket = {}
    /\ videos \in {<<a, b>> : a \in Rows(1), b \in Rows(2)}
    /\ hls_dirs = {HLS_DIR \o <<"legacy">>}
    /\ hls_files = EngineOutput(HLS_DIR \o <<"legacy">>, TRUE)
    /\ jobs = <<>>
    /\ req = [r \in Req |-> IdleReq]
    /\ call = [c \in Caller |-> IdleCall]
    /\ InitSite

NextSource ==
    \/ \E id \in VideoId : watch(id)
    \/ api_videos

SpecSource == InitSource /\ [][NextSource]_vars

\* ------------------------------------------------------------------ claims
Finished(r) == req[r].pc = "done"
Created(r) == req[r].video_id # 0
VideoOf(r) == videos[req[r].video_id]
Stored(r) == req[r].public_url # None
JobsOfUpload(r) == {j \in 1..Len(jobs) : jobs[j].by = <<"upload", r>>}
Count(seq, x) == Cardinality({i \in 1..Len(seq) : seq[i] = x})

\* C1: an upload with to_hls set, on a host where ffmpeg_exists() is true and
\* the engine exits 0, has had the Packaging Job run and its Video's
\* hls_manifest is "{asset_dir}/master.m3u8" when the request has finished.
C1_PackagedWhenRequested ==
    \A r \in Req :
        (Finished(r) /\ Created(r) /\ req[r].to_hls /\ ffmpeg_exists
            /\ engine_status = 0)
        => /\ JobsOfUpload(r) # {}
           /\ Len(VideoOf(r).hls_manifest) = 2
           /\ VideoOf(r).hls_manifest[2] = "master.m3u8"

\* C2: where ffmpeg_exists() is false, no upload runs the engine, no HLS
\* output directory is made and every Video's hls_manifest stays unset.
C2_NoProbeNoPackaging ==
    ~ffmpeg_exists
    => /\ jobs = <<>>
       /\ hls_dirs = {}
       /\ \A i \in 1..Len(videos) : videos[i].hls_manifest = None

C2_Witness ==
    /\ ~ffmpeg_exists
    /\ \E r \in Req : Finished(r) /\ Created(r) /\ req[r].to_hls

\* C3: an upload without to_hls never runs the engine, engine available or
\* not; its Video has no manifest and plays from the stored original's URL,
\* and the request ends as a success with no packaging notice.
C3_NotRequestedNotPackaged ==
    \A r \in Req :
        ~req[r].to_hls
        => /\ JobsOfUpload(r) = {}
           /\ (Finished(r) /\ Created(r))
              => /\ VideoOf(r).hls_manifest = None
                 /\ source_url(VideoOf(r)).kind = "external"
                 /\ source_url(VideoOf(r)).path = req[r].public_url
                 /\ req[r].public_url = PublicUrl(req[r].final)
                 /\ req[r].redirect = "watch"
                 /\ Count(req[r].flashes, FlashPackagingFailed) = 0

C3_Witness ==
    \E r \in Req :
        /\ Finished(r) /\ Created(r) /\ ~req[r].to_hls
        /\ ffmpeg_exists /\ engine_status = 0

C5_OneAdvisoryNotice ==
    \A r \in Req :
        (Finished(r) /\ Created(r) /\ req[r].to_hls /\ ffmpeg_exists
            /\ engine_status = 1)
        => /\ req[r].redirect = "watch"
           /\ Count(req[r].flashes, FlashPackagingFailed) = 1

IngestState(q) ==
    IF q.public_url = None THEN "NotIngested"
    ELSE IF q.pc = "stored" THEN "Received"
    ELSE IF q.pc \in {"removing", "cleaned"} THEN "Skipped"
    ELSE "Finalized"

IngestEdges ==
    {<<"NotIngested", "Received">>, <<"Received", "Skipped">>,
     <<"Received", "Packaging">>, <<"Skipped", "Finalized">>,
     <<"Packaging", "Packaged">>, <<"Packaging", "PackagingFailed">>,
     <<"Packaged", "Finalized">>, <<"PackagingFailed", "Finalized">>}

\* C7: an ingestion moves only along Received -> {Skipped | Packaging} ->
\* {Packaged | PackagingFailed} -> Finalized; a finished request never
\* changes again; an upload runs the engine at most once; and every received
\* ingestion is eventually finalized.
C7_IngestStateMachine ==
    /\ [][\A r \in Req :
            /\ \/ IngestState(req'[r]) = IngestState(req[r])
               \/ <<IngestState(req[r]), IngestState(req'[r])>> \in IngestEdges
            /\ Finished(r) => req'[r] = req[r]
            /\ Cardinality({j \in 1..Len(jobs') : jobs'[j].by = <<"upload", r>>}) <= 1
         ]_vars
    /\ \A r \in Req :
         (IngestState(req[r]) = "Received") ~> (IngestState(req[r]) = "Finalized")

C7_Witness ==
    \E r, q \in Req :
        /\ IngestState(req[r]) = "Finalized" /\ Created(r)
        /\ IngestState(req[q]) = "Finalized" /\ req[q].raised = "commit"

\* C8: when a call of transcode_to_hls whose engine run exited 0 leaves the
\* repair step, and when it returns, master.m3u8 is in target_dir, written
\* by the engine or not; a master.m3u8 the repair step wrote holds exactly 2
\* #EXT-X-STREAM-INF lines.
C8_MasterExistsOnReturn ==
    [][\A c \in Caller :
         LET mp == master_path(call[c].target_dir) IN
         /\ (call[c].pc = "repair" /\ call'[c].pc = "return")
            => /\ mp \in DOMAIN hls_files'
               /\ call'[c].synthesized
                  => StreamInfCount(hls_files'[mp]) = 2
         /\ (call[c].pc = "return" /\ call'[c].pc = "returned")
            => mp \in DOMAIN hls_files'
      ]_vars

C8_Witness ==
    \E c \in Caller :
        /\ call[c].pc = "returned" /\ call[c].synthesized
        /\ master_path(call[c].target_dir) \in DOMAIN hls_files
        /\ StreamInfCount(hls_files[master_path(call[c].target_dir)]) = 2

\* C9: on the output of a run that exited 0, the repair step applied twice
\* gives the same files, the same master.m3u8 included, as applied once; and
\* where master.m3u8 exists it changes no file.
C9_RepairIdempotent ==
    \A c \in Caller :
        call[c].pc \in {"repair", "return", "returned"}
        => LET d == call[c].target_dir
               mp == master_path(d)
               once == ManifestRepair(hls_files, d)
               twice == ManifestRepair(once, d)
           IN /\ mp \in DOMAIN once
              /\ twice = once
              /\ twice[mp] = once[mp]
              /\ mp \in DOMAIN hls_files => once = hls_files

C9_Witness ==
    \E c, e \in Caller :
        /\ call[c].pc = "returned" /\ call[c].synthesized
        /\ hls_files[master_path(call[c].target_dir)] = MasterManifest
        /\ ManifestRepair(hls_files, call[c].target_dir) = hls_files
        /\ call[e].pc = "repair"
        /\ master_path(call[e].target_dir) \in DOMAIN hls_files
        /\ hls_files[master_path(call[e].target_dir)] = EngineMaster

\* C10: a call whose engine run exits non-zero raises CalledProcessError to
\* its caller: it does not go on to the repair step (it writes no
\* synthesized master.m3u8), it returns no path, and it stays raised.
C10_FailedRunRaises ==
    [][\A c \in Caller :
         LET mp == master_path(call[c].target_dir) IN
         /\ ( /\ call[c].pc = "run"
              /\ Len(jobs') = Len(jobs) + 1
              /\ jobs'[Len(jobs')].by = <<"call", c>>
              /\ jobs'[Len(jobs')].status # 0 )
            => /\ call'[c].pc = "raised"
               /\ call'[c].error = "CalledProcessError"
               /\ call'[c].result = None
               /\ ~call'[c].synthesized
               /\ (mp \notin DOMAIN hls_files /\ mp \in DOMAIN hls_files')
                  => hls_files'[mp] # MasterManifest
         /\ call[c].pc = "raised" => call'[c] = call[c]
      ]_vars

C10_Witness ==
    \E c \in Caller :
        /\ call[c].pc = "raised" /\ call[c].error = "CalledProcessError"
        /\ call[c].result = None
        /\ master_path(call[c].target_dir) \notin DOMAIN hls_files

\* C11: the hls_manifest of a Video is written at most once.  No step removes
\* a row of videos; a step that leaves a row (or a new row) with another
\* hls_manifest than before finds it unset and follows an engine run that
\* exited 0 into the directory of that manifest; a manifest that has a value
\* keeps it through every handler (upload, watch, like, dislike, comment,
\* settings, ban, promote).
C11_ManifestWrittenAtMostOnce ==
    [][/\ Len(videos') >= Len(videos)
       /\ \A id \in 1 .. Len(videos') :
            LET old == IF id <= Len(videos) THEN videos[id].hls_manifest
                       ELSE None
                new == videos'[id].hls_manifest
            IN new # old =>
                 /\ old = None
                 /\ \E j \in 1 .. Len(jobs) :
                      /\ jobs[j].status = 0
                      /\ relpath(master_path(jobs[j].target_dir), HLS_DIR) = new
      ]_vars

\* The packaged video keeps its manifest after it was watched, commented and
\* liked, a user was promoted and an upload was committed next to it.
C11_Witness ==
    /\ Len(videos) = 2
    /\ videos[1].hls_manifest = LegacyManifest
    /\ videos[1].views > 0
    /\ \E i \in 1 .. Len(comments) : comments[i].video_id = 1
    /\ \E l \in likes : l.video_id = 1
    /\ \A u \in users : u.is_admin
    /\ Cardinality(users) = MaxUsers
    /\ videos[2].hls_manifest = None

\* The row of videos an item of the page was rendered from.
RowOf(it) == videos[it.id]

\* C12 as claimed: whenever a row has an hls_manifest, the source rendered for
\* it is the /hls URL of that manifest; the external URL or the local file
\* is rendered only for rows without one.
C12_ManifestTakesPrecedence ==
    \A i \in 1 .. Len(page) :
        LET v == RowOf(page[i]) IN
        IF v.hls_manifest # None
        THEN page[i].source_url = [kind |-> "hls", path |-> v.hls_manifest]
        ELSE page[i].source_url.kind # "hls"

\* C12: for a row with an hls_manifest, the source rendered is the /hls URL
\* of the manifest when the row has no external_url; a row with an
\* external_url is rendered with that URL, manifest or not; no row without
\* a manifest is rendered with an /hls URL.
C12_ManifestPrecedesLocalFile ==
    \A i \in 1 .. Len(page) :
        LET v == RowOf(page[i]) IN
        /\ (v.hls_manifest # None /\ v.external_url = None)
               => page[i].source_url = [kind |-> "hls", path |-> v.hls_manifest]
        /\ (v.hls_manifest # None /\ v.external_url # None)
               => page[i].source_url.kind = "external"
        /\ v.hls_manifest = None => page[i].source_url.kind # "hls"

\* The list shows a row that has a manifest, a file and no external URL
\* under the /hls URL, and a row with both a manifest and an
\* external URL under its external URL.
C12_Witness ==
    /\ Len(page) = 2
    /\ \E i \in 1 .. 2 :
         /\ RowOf(page[i]).hls_manifest # None
         /\ RowOf(page[i]).external_url = None
         /\ RowOf(page[i]).filename # NoName
         /\ page[i].source_url.kind = "hls"
    /\ \E i \in 1 .. 2 :
         /\ RowOf(page[i]).hls_manifest # None
         /\ RowOf(page[i]).external_url # None
         /\ page[i].source_url.kind = "external"

\* C19: Video.source_url applies a fixed priority.  The source rendered for a
\* row is its external_url whenever that is set, manifest or not; else the
\* /hls URL of its hls_manifest if set; else the /media URL of its filename
\* if set; else the empty string.
C19_SourceUrlPriority ==
    \A i \in 1 .. Len(page) :
        LET v == RowOf(page[i])
            src == page[i].source_url
        IN
        CASE v.external_url # None ->
                 src = [kind |-> "external", path |-> v.external_url]
          [] v.external_url = None /\ v.hls_manifest # None ->
                 src = [kind |-> "hls", path |-> v.hls_manifest]
          [] v.external_url = None /\ v.hls_manifest = None
                 /\ v.filename # NoName ->
                 src = [kind |-> "media",
                        path |-> <<v.filename.base, v.filename.ext>>]
          [] OTHER -> src = [kind |-> "", path |-> None]

\* The watch page of a row with all three set shows the external URL, next
\* to a row that has neither an external URL nor a manifest.
C19_Witness ==
    /\ Len(page) = 1
    /\ RowOf(page[1]).external_url # None
    /\ RowOf(page[1]).hls_manifest # None
    /\ RowOf(page[1]).filename # NoName
    /\ page[1].source_url = [kind |-> "external", path |-> DemoUrl]
    /\ \E id \in VideoId :
         /\ videos[id].external_url = None
         /\ videos[id].hls_manifest = None
         /\ Item(videos[id]).source_url.kind \in {"", "media"}

C14_ReaderSeesNoneOrFinished ==
    \A i \in 1 .. Len(page) :
        \/ /\ ~page[i].hls
           /\ page[i].source_url.kind \in {"external", "media"}
        \/ /\ page[i].hls
           /\ (HLS_DIR \o RowOf(page[i]).hls_manifest) \in DOMAIN hls_files

\* The upload has just committed its row, and the watch page of the new
\* video shows it without a manifest, under its external URL.
C14_Witness ==
    /\ Finished(1) /\ Created(1)
    /\ Len(page) = 1
    /\ page[1].id = req[1].video_id
    /\ ~page[1].hls
    /\ page[1].source_url = [kind |-> "external", path |-> req[1].public_url]

\* C15 as claimed: when the engine fails, neither the line transcode_to_hls
\* prints nor the error it raises holds more than 2000 characters of the
\* engine's diagnostic.
C15_DiagnosticBounded ==
    \A c \in Caller :
        call[c].error = "CalledProcessError"
            => call[c].logged <= LogLimit /\ call[c].carried <= LogLimit

\* C15: when the engine fails, the line transcode_to_hls prints holds the
\* first 2000 characters of the engine's diagnostic, all of it when it is
\* shorter; the CalledProcessError it raises is the one it caught, with the
\* diagnostic whole.
C15_LogBoundedErrorWhole ==
    \A c \in Caller :
        call[c].error = "CalledProcessError"
            => /\ call[c].logged <= LogLimit
               /\ call[c].logged <= call[c].carried
               /\ call[c].carried <= LogLimit => call[c].logged = call[c].carried
               /\ call[c].carried > LogLimit => call[c].logged = LogLimit
               /\ call[c].carried \in StderrLens

\* A failed call whose engine wrote one character more than the log line
\* takes.
C15_Witness ==
    \E c \in Caller :
        /\ call[c].pc = "raised" /\ call[c].error = "CalledProcessError"
        /\ call[c].carried = LogLimit + 1
        /\ call[c].logged = LogLimit

\* target_dir is a directory directly under HLS_DIR.
UnderHlsDir(target_dir) ==
    /\ Len(target_dir) = Len(HLS_DIR) + 1
    /\ SubSeq(target_dir, 1, Len(HLS_DIR)) = HLS_DIR

\* C16 as claimed: whatever target_dir a call was made with, the path it
\* returns is {asset_dir}/master.m3u8, asset_dir being the last component of
\* target_dir: it is not the absolute path and has no ".." component.
C16_RelativeForEveryTargetDir ==
    \A c \in Caller :
        call[c].pc = "returned"
            => LET d == call[c].target_dir IN
               /\ call[c].result = <<d[Len(d)], "master.m3u8">>
               /\ call[c].result # master_path(d)
               /\ \A i \in 1 .. Len(call[c].result) : call[c].result[i] # ".."

\* C16: the path a call returns is that of master.m3u8 relative to HLS_DIR.
\* For a target_dir HLS_DIR/{asset_dir} it is {asset_dir}/master.m3u8, with
\* no ".." component; for a target_dir outside HLS_DIR it begins with "..".
\* It is never the absolute path.
C16_RelativeToHlsDir ==
    \A c \in Caller :
        call[c].pc = "returned"
            => LET d == call[c].target_dir
                   res == call[c].result
               IN
               /\ res # master_path(d)
               /\ UnderHlsDir(d)
                    => /\ res = <<d[Len(d)], "master.m3u8">>
                       /\ HLS_DIR \o res = master_path(d)
               /\ SubSeq(d, 1, Len(HLS_DIR)) # HLS_DIR
                    => /\ res[1] = ".."
                       /\ res[Len(res)] = "master.m3u8"

\* One call has returned for a directory under HLS_DIR and another for a
\* directory outside it.
C16_Witness ==
    \E c \in Caller, e \in Caller :
        /\ call[c].pc = "returned" /\ UnderHlsDir(call[c].target_dir)
        /\ call[c].result = <<"clip", "master.m3u8">>
        /\ call[e].pc = "returned" /\ ~UnderHlsDir(call[e].target_dir)
        /\ call[e].result = <<"..", "out", "master.m3u8">>

\* C17: the 360p rendition comes before the 720p one.  Every engine run is
\* started with 640x360 as video stream 0 and 1280x720 as video stream 1,
\* mapped in that order to the variants v0 and v1; and a master playlist the
\* repair step writes lists 640x360 with bandwidth 800000 and v0/index.m3u8
\* first, 1280x720 with bandwidth 2500000 and v1/index.m3u8 second.
C17_LowBeforeHigh ==
    [][/\ \A j \in 1 .. Len(jobs') :
            /\ jobs'[j].cmd.filter[0 + 1] = [w |-> 640, h |-> 360]
            /\ jobs'[j].cmd.filter[1 + 1] = [w |-> 1280, h |-> 720]
            /\ jobs'[j].cmd.var_stream_map = <<"v:0,a:0", "v:1,a:1">>
       /\ \A c \in Caller :
            (call[c].pc = "repair" /\ call'[c].synthesized)
                => LET m == hls_files'[master_path(call[c].target_dir)] IN
                   /\ StreamInfCount(m) = 2
                   /\ m[3] = StreamInf(800000, 640, 360)
                   /\ m[4] = Uri("v0/index.m3u8")
                   /\ m[5] = StreamInf(2500000, 1280, 720)
                   /\ m[6] = Uri("v1/index.m3u8")
      ]_vars

\* A call whose engine run wrote both renditions and no master playlist has
\* had the master playlist written by the repair step.
C17_Witness ==
    \E c \in Caller :
        LET d == call[c].target_dir IN
        /\ call[c].pc = "return"
        /\ call[c].synthesized
        /\ \E j \in 1 .. Len(jobs) : jobs[j].by = <<"call", c>> /\ jobs[j].status = 0
        /\ (d \o <<"v0", "index.m3u8">>) \in DOMAIN hls_files
        /\ (d \o <<"v1", "index.m3u8">>) \in DOMAIN hls_files
        /\ hls_files[master_path(d)] = MasterManifest

LikesOf(id) == Cardinality({l \in likes : l.video_id = id /\ l.is_like})
DislikesOf(id) == Cardinality({l \in likes : l.video_id = id /\ ~l.is_like})
ReactedTo(id) == {l.user_id : l \in {x \in likes : x.video_id = id}}

\* C20: whatever like_video and dislike_video requests were made and however
\* their statements interleaved, table likes holds at most one row for a
\* user and a video, and the likes and dislikes of a video together are no
\* more than the users who have reacted to it.
C20_OneLikePerUserAndVideo ==
    /\ \A a \in likes, b \in likes :
         (a.user_id = b.user_id /\ a.video_id = b.video_id) => a = b
    /\ \A id \in VideoId :
         LikesOf(id) + DislikesOf(id) <= Cardinality(ReactedTo(id))

\* Two requests of one user for one video both found no row; one added its
\* row and the other was refused; a row of another request is there too.
C20_Witness ==
    \E s \in Sess, t \in Sess :
        /\ s # t
        /\ sess[s].user = sess[t].user /\ sess[s].video = sess[t].video
        /\ sess[s].existing = NoLike /\ sess[t].existing = NoLike
        /\ sess[s].pc = "done" /\ sess[s].status = 200
        /\ sess[t].pc = "done" /\ sess[t].status = 500
        /\ Cardinality({l \in likes : l.user_id = sess[s].user
                                      /\ l.video_id = sess[s].video}) = 1
        /\ Cardinality(likes) = 2

\* The reaction of user u to video id that table likes holds, and the one a
\* request found when it read the table.
Reaction(u, id) ==
    IF \E l \in likes : l.user_id = u /\ l.video_id = id /\ l.is_like
    THEN "like"
    ELSE IF \E l \in likes : l.user_id = u /\ l.video_id = id
    THEN "dislike"
    ELSE "none"
Found(existing) ==
    IF existing = NoLike THEN "none"
    ELSE IF existing.is_like THEN "like" ELSE "dislike"

\* The three-state machine of the claim: a request of kind op ("like" or
\* "dislike") takes its own kind to none and everything else to its kind.
Toggle(op, reaction) == IF reaction = op THEN "none" ELSE op

\* Request s read the table as it still is.
Fresh(s) ==
    IF sess[s].existing = NoLike
    THEN Reaction(sess[s].user, sess[s].video) = "none"
    ELSE sess[s].existing \in likes

\* Request t commits directly after request s, of the same user for the
\* same video, has been answered 200, no other request being under way.
InARow(s, t) ==
    /\ s # t
    /\ sess[s].pc = "done" /\ sess[s].status = 200
    /\ sess[t].pc = "read" /\ Fresh(t)
    /\ sess[s].user = sess[t].user /\ sess[s].video = sess[t].video
    /\ \A o \in Sess \ {s, t} : sess[o].pc = "idle"

\* C21 as claimed: a request that commits on the table as it read it takes
\* the reaction none -> like, like -> none, dislike -> like (like_video) or
\* none -> dislike, dislike -> none, like -> dislike (dislike_video); the
\* same request made twice in a row leaves the reaction that was there
\* before the first; a like followed by a dislike leaves one dislike.
C21_TwiceRestores ==
    [][\A t \in Sess :
         (sess[t].pc = "read" /\ sess'[t].pc = "done" /\ Fresh(t))
         => LET u == sess[t].user
                id == sess[t].video
                op == sess[t].op
            IN
            /\ Reaction(u, id)' = Toggle(op, Reaction(u, id))
            /\ \A s \in Sess :
                 (InARow(s, t) /\ sess[s].op = op)
                     => Reaction(u, id)' = Found(sess[s].existing)
            /\ \A s \in Sess :
                 (InARow(s, t) /\ sess[s].op = "like" /\ op = "dislike")
                     => Reaction(u, id)' = "dislike"
      ]_vars

\* C21: a request that commits on the table as it read it is answered 200
\* and takes the reaction none -> like, like -> none, dislike -> like
\* (like_video) or none -> dislike, dislike -> none, like -> dislike
\* (dislike_video), leaving at most one row for the user and the video.
\* The same request made twice in a row leaves the reaction that was there
\* before the first when that was none or the request's own kind, and none
\* when it was the opposite kind.  A like followed by a dislike leaves one
\* dislike row and no like.
C21_ReactionMachine ==
    [][\A t \in Sess :
         (sess[t].pc = "read" /\ sess'[t].pc = "done" /\ Fresh(t))
         => LET u == sess[t].user
                id == sess[t].video
                op == sess[t].op
                rows == {l \in likes' : l.user_id = u /\ l.video_id = id}
            IN
            /\ sess'[t].status = 200
            /\ Reaction(u, id)' = Toggle(op, Reaction(u, id))
            /\ Cardinality(rows) <= 1
            /\ \A s \in Sess :
                 (InARow(s, t) /\ sess[s].op = op)
                     => LET before == Found(sess[s].existing) IN
                        /\ Reaction(u, id) = Toggle(op, before)
                        /\ before \in {"none", op} => Reaction(u, id)' = before
                        /\ before \notin {"none", op} => Reaction(u, id)' = "none"
            /\ \A s \in Sess :
                 (InARow(s, t) /\ sess[s].op = "like" /\ op = "dislike")
                     => /\ Reaction(u, id)' = "dislike"
                        /\ Cardinality(rows) = 1
      ]_vars

\* like_video was answered twice in a row for a video the user disliked:
\* the first request made the row a like, the second deleted it.
C21_Witness ==
    \E s \in Sess, t \in Sess :
        /\ s # t
        /\ sess[s].pc = "done" /\ sess[s].op = "like" /\ sess[s].status = 200
        /\ sess[t].pc = "done" /\ sess[t].op = "like" /\ sess[t].status = 200
        /\ sess[s].user = sess[t].user /\ sess[s].video = sess[t].video
        /\ Found(sess[s].existing) = "dislike"
        /\ Found(sess[t].existing) = "like"
        /\ Reaction(sess[s].user, sess[s].video) = "none"

\* C25: the name the collision-avoidance loop gives an upload differs from
\* the stored name of every upload that succeeded before it, also for a
\* file of the same original name; so no two Videos have the same filename
\* and no two successful uploads the same object-store key.
C25_FreshStoredName ==
    [][/\ \A r \in Req :
            (req[r].pc = "idle" /\ req'[r].pc = "named")
                => /\ \A i \in 1 .. Len(videos) :
                        videos[i].filename # req'[r].final
                   /\ req'[r].final \notin bucket
       /\ \A i \in 1 .. Len(videos'), j \in 1 .. Len(videos') :
            i # j => videos'[i].filename # videos'[j].filename
      ]_vars

Following == {<<f.follower_id, f.followed_id>> : f \in follows}

\* Request w read table follows as it still is.
FreshFollow(w) ==
    IF web[w].existing = NoRow
    THEN <<web[w].user, web[w].target>> \notin Following
    ELSE web[w].existing \in follows

\* Request t commits directly after request s, of the same follower for the
\* same target, has been answered 200, no other request being under way.
FollowsInARow(s, t) ==
    /\ s # t
    /\ web[s].pc = "done" /\ web[s].op = "follow" /\ web[s].status = 200
    /\ web[t].pc = "read" /\ web[t].op = "follow" /\ FreshFollow(t)
    /\ web[s].user = web[t].user /\ web[s].target = web[t].target
    /\ \A o \in Web \ {s, t} : web[o].pc = "idle"

\* C22: no row of follows ever has follower_id = followed_id; a request to
\* follow oneself is answered 400 and changes no table; a request for
\* another user that commits on the table as it read it is answered 200 and
\* toggles the pair (follower, followed) and no other; and two requests in a
\* row by the same follower for the same target leave the pairs table
\* follows relates as they were before the first.
C22_FollowToggle ==
    /\ [](\A f \in follows : f.follower_id # f.followed_id)
    /\ [][\A t \in Web :
            /\ (web[t].pc = "idle" /\ web'[t].op = "follow"
                  /\ web'[t].user = web'[t].target)
               => /\ web'[t].pc = "done" /\ web'[t].status = 400
                  /\ follows' = follows /\ users' = users
            /\ (web[t].pc = "read" /\ web[t].op = "follow"
                  /\ web'[t].pc = "done" /\ FreshFollow(t))
               => LET pair == <<web[t].user, web[t].target>> IN
                  /\ web'[t].status = 200
                  /\ pair \in Following' <=> pair \notin Following
                  /\ Following' \ {pair} = Following \ {pair}
                  /\ \A s \in Web :
                       FollowsInARow(s, t)
                         => /\ pair \in Following <=> web[s].existing = NoRow
                            /\ pair \in Following' <=> web[s].existing # NoRow
         ]_vars

\* Two requests of one follower for one target were answered 200 one after
\* the other, the first having added the row and the second deleted it.
C22_Witness ==
    /\ web[1].pc = "done" /\ web[1].op = "follow" /\ web[1].status = 200
    /\ web[2].pc = "done" /\ web[2].op = "follow" /\ web[2].status = 200
    /\ web[1].user = web[2].user /\ web[1].target = web[2].target
    /\ web[1].existing = NoRow /\ web[2].existing # NoRow
    /\ <<web[1].user, web[1].target>> \notin Following

\* models.py:108-111: Video.xp, the rows of xp for the video, and the users
\* who gave them.
XpCount(id) == Cardinality({x \in xps : x.video_id = id})
XpGivers(id) == {x.user_id : x \in {y \in xps : y.video_id = id}}

\* A request that commits while the user is there and has no row for the
\* video is answered 200 and raises the video's count by one.
FirstXpAdds ==
    [][\A t \in Web :
         (web[t].pc = "read" /\ web[t].op = "xp" /\ web'[t].pc = "done"
            /\ web[t].user \in {x.id : x \in users}
            /\ ~ \E x \in xps : x.user_id = web[t].user
                                /\ x.video_id = web[t].target)
         => web'[t].status = 200 /\ XpCount(web[t].target)' = XpCount(web[t].target) + 1
      ]_vars

\* C23: a give_xp request of a user who has no row for the video adds one
\* row of that user and video and nothing else; a request of a user who has
\* one, made after or while another one commits, adds none; no step removes
\* a row of xp.  So the xp count of a video is the number of distinct users
\* who gave it xp and never decreases.
C23_XpIdempotent ==
    /\ [](\A id \in VideoId : XpCount(id) = Cardinality(XpGivers(id)))
    /\ FirstXpAdds
    /\ [][/\ xps \subseteq xps'
          /\ \A id \in VideoId : XpCount(id)' >= XpCount(id)
          /\ \A t \in Web :
               (web'[t].op = "xp" /\ web[t].pc # "done" /\ web'[t].pc = "done")
               => LET u == web'[t].user
                      id == web'[t].target
                      mine == {x \in xps : x.user_id = u /\ x.video_id = id}
                  IN
                  IF mine = {} /\ id \in VideoId /\ web'[t].status = 200
                  THEN /\ Cardinality(xps' \ xps) = 1
                       /\ \A x \in xps' \ xps : x.user_id = u /\ x.video_id = id
                  ELSE xps' = xps
         ]_vars

\* A user's first request added a row, a later one of the same user for the
\* same video was answered without adding one, and the video has one xp.
C23_Witness ==
    /\ web[1].pc = "done" /\ web[1].op = "xp" /\ web[1].status = 200
    /\ web[1].existing = NoRow
    /\ web[2].pc = "done" /\ web[2].op = "xp" /\ web[2].status = 200
    /\ web[2].existing # NoRow
    /\ web[1].user = web[2].user /\ web[1].target = web[2].target
    /\ XpCount(web[1].target) = 1

\* The caller of a ban_user or promote_user request answered in this step.
Answered(t, ops) ==
    web[t].pc = "idle" /\ web'[t].pc = "done" /\ web'[t].op \in ops

\* C24: a ban_user or promote_user request of a caller who is not an
\* administrator is refused and leaves table users as it is, rows and
\* is_admin flags alike; an administrator's ban_user request against their
\* own id leaves table users as it is; and no step of any handler takes the
\* is_admin of a user from true to false.
C24_AdminOnly ==
    [][/\ \A t \in Web :
            (Answered(t, {"ban", "promote"})
               /\ \E cur \in users : cur.id = web'[t].user /\ ~cur.is_admin)
            => users' = users /\ web'[t].flash = "Acces refuse"
       /\ \A t \in Web :
            (Answered(t, {"ban"}) /\ web'[t].user = web'[t].target)
            => users' = users
       /\ \A x \in users, y \in users' :
            (x.id = y.id /\ x.is_admin) => y.is_admin
      ]_vars

\* A user who is no administrator asked for the ban of the administrator
\* and was refused, the administrator asked for their own ban and for the
\* promotion of that user, and both are in table users, administrators.
C24_Witness ==
    /\ \E t \in Web : /\ web[t].pc = "done" /\ web[t].op = "ban"
                      /\ web[t].user = 2 /\ web[t].target = 1
                      /\ web[t].flash = "Acces refuse"
    /\ \E t \in Web : /\ web[t].pc = "done" /\ web[t].op = "ban"
                      /\ web[t].user = 1 /\ web[t].target = 1
    /\ \E t \in Web : /\ web[t].pc = "done" /\ web[t].op = "promote"
                      /\ web[t].user = 1 /\ web[t].target = 2
    /\ \A u \in {1, 2} : \E x \in users : x.id = u /\ x.is_admin

\* C27 as claimed: no two rows of users have the same display_name.
C27_DisplayNameUnique ==
    \A x \in users, y \in users : x.display_name = y.display_name => x = y
====
